---- MODULE Spec2Model ----
(***************************************************************************)
(* A model of two ingestion cores of the repository:                       *)
(*   - the TCP source (src/src/sources/util/tcp.rs): listener, accept      *)
(*     loop, per-connection handler, drain tripwire, connection gauge;     *)
(*   - the EXEC source (src/src/sources/exec/mod.rs): scheduled and        *)
(*     streaming supervisors, the command runner, the reader tasks and     *)
(*     the bounded frame channel.                                          *)
(*                                                                         *)
(* One action is one poll segment of a task (the code between two          *)
(* suspension points) or one event of the environment (peer, child         *)
(* process, downstream sink, timers, the shutdown signal).                 *)
(* tokio::select! without `biased` polls its branches in a random order:   *)
(* when several branches are ready, any of them may win.                   *)
(***************************************************************************)
EXTENDS Integers, Sequences, FiniteSets, TLC

\* ------------------------------------------------------------------------
\* Bounds of the model (not program constants).
\* ------------------------------------------------------------------------
\* Accept results the listener may yield: connections accepted and accepts
\* that failed, together.
MaxConns == 2
\* Input the peers send, over all connections together, counted in events: a
\* frame (or a frame the decoder rejects) counts as the events it lifts into
\* (Item: Into<SmallVec<[Event; 1]>>), and as one when it lifts into none.
MaxTcpInput == 2
\* Runs (spawn attempts) of the EXEC supervisor.
MaxRuns == 2
\* Frames the two readers of one run decode, stdout and stderr together.
MaxFrames == 3
\* Slots of the frame channel in the model; the code's channel(1024) is scaled
\* down so that a full channel is reached.
ChanCap == 2
\* exec_interval_secs of the scheduled mode, in clock steps of the model.
Interval == 2

VARIABLES
    \* ---- shared collaborators
    source,            \* which source this run of the program is: "tcp" | "exec"
    shutdown,          \* the ShutdownSignal has fired
    sinkClosed,        \* the downstream sink reports Closed / send error
    \* ---- TCP source
    listener,          \* "off" | "init" | "listening" | "failed" | "closed"
    tcpResult,         \* what the source future returned: "none" | "Ok" | "Err"
    drainElapsed,      \* the tripwire's sleep(shutdown_timeout_secs) has elapsed
    connection_gauge,  \* OpenGauge count
    accepted,          \* number of connections accepted so far
    arrived,           \* accept results the stream has yielded so far, Ok or Err
    hpc,               \* handler position per connection
    frame_no,          \* frames decoded so far per connection
    events_n,          \* number of events of the frame in hand
    event_i,           \* index of the event in hand (1..events_n)
    write_shut,        \* the handler has shut the socket's write half
    tcp_input,         \* input the peers have sent so far (see MaxTcpInput)
    sent,              \* per connection: events the sink has accepted
    acked,             \* per connection: acks written to the socket
    handshake,         \* per connection: socket.handshake(): "none" | "pending" | "Ok" | "Err"
    conn_errors,       \* per connection: TcpSocketConnectionError events emitted
    skipped_at,        \* per connection: frames decoded when the handler last went on
                       \* after a decoder error, -1 before the first such error
    \* ---- EXEC source
    mode,              \* "scheduled" | "respawn" | "once" (streaming without respawn)
    include_stderr,    \* config.include_stderr
    epc,               \* supervisor position: "off" | "start" | "tick" | "run" | "cooldown" | "done"
    supResult,         \* what the supervisor returned: "none" | "Ok"
    clk,               \* scheduled mode: clock steps since the last tick was taken
    sleepDone,         \* streaming mode: sleep(respawn_interval_secs) has elapsed
    rpc,               \* run_command position: "idle" | "recv" | "send" | "flush"
    result,            \* run_command's `result`, computed before the flush
    rd,                \* reader task per stream: "off" | "read" | "push" | "done"
    dec,               \* frames decoded so far per stream (the last one is in hand while "push")
    chan,              \* the frame channel: a queue of <<stream, frame>>
    cur,               \* the frame whose event the runner is sending, or <<>>
    delivered,         \* per stream: frames the sink accepted in this run, in order
    nruns,             \* run_command futures polled so far
    run,               \* the latest run: how it started, its child, how the future ended
    telemetry,         \* internal events emitted for the latest run, in order
    detached,          \* some reader task is still alive whose run_command future is gone
    \* ---- functions of the two sources, called on their own
    call,              \* which function this run of the model calls, or "none"
    fd_str,            \* parse_systemd_fd: the string handed to the deserializer
    fd_ret,            \* parse_systemd_fd: what it returned
    \* ---- spawn_reader_thread on a reader of its own
    event_per_line,    \* its argument: line mode (TRUE) or blob mode (FALSE)
    buf_size,          \* its argument: the codec's max_length
    stream_tag,        \* its argument `stream`
    reader,            \* the bytes the reader yields, from first to last
    nread,             \* how many of them the FramedRead has read
    nreads,            \* reads that returned data so far
    buffer,            \* FramedRead's buffer
    next_index,        \* LinesCodec.next_index
    is_discarding,     \* LinesCodec.is_discarding
    is_readable,       \* FramedRead's state.is_readable
    eof,               \* FramedRead's state.eof
    task,              \* the spawned task: "off" | "run" | "done"
    rx_open,           \* the Receiver of the channel is alive
    received,          \* the <<frame, stream>> pairs sent into the channel, in order
    \* ---- create_event
    ce_args,           \* its arguments, with the clock Utc::now() reads
    ce_ret             \* the internal event it emitted and the Event it returned

hsVars == <<handshake, conn_errors>>

tcpVars == <<listener, tcpResult, drainElapsed, connection_gauge, accepted, arrived,
             hpc, frame_no, events_n, event_i, write_shut, tcp_input, sent,
             acked, skipped_at, hsVars>>

connVars == <<hpc, frame_no, events_n, event_i, write_shut, tcp_input, sent,
              acked, skipped_at, hsVars>>

envVars == <<source, shutdown, sinkClosed>>

cfgVars == <<mode, include_stderr>>

runVars == <<rpc, result, rd, dec, chan, cur, delivered>>

execVars == <<cfgVars, epc, supResult, clk, sleepDone, runVars, nruns, run,
              telemetry, detached>>

fdVars == <<fd_str, fd_ret>>

codecVars == <<buffer, next_index, is_discarding>>

readerVars == <<event_per_line, buf_size, stream_tag, reader, nread, nreads,
                codecVars, is_readable, eof, task, rx_open, received>>

ceVars == <<ce_args, ce_ret>>

fnVars == <<call, fdVars, readerVars, ceVars>>

Streams == {"stdout", "stderr"}

Conns == 1..MaxConns

\* Before the first run there is no run.
NoRun == [start |-> "none", proc |-> "none", code |-> "none", ret |-> "none"]

\* ------------------------------------------------------------------------
\* The drain tripwire: shutdown, then sleep(shutdown_timeout_secs).
\* ------------------------------------------------------------------------
TripwireResolved == shutdown /\ drainElapsed

\* ------------------------------------------------------------------------
\* OpenGauge (crate::internal_events, outside src/): open() adds one and
\* hands out a token, dropping the token takes one away.
\* ------------------------------------------------------------------------
GaugeOpen(g) == g + 1
GaugeClose(g) == g - 1

\* ------------------------------------------------------------------------
\* TCP source: listener factory and supervisor (TcpSource::run)
\* ------------------------------------------------------------------------
\* make_listener: Some(listener) or, on any bind/take failure, None; run
\* answers None with `return Err(())`.
MakeListener(ok) ==
    /\ listener = "init"
    /\ listener' = IF ok THEN "listening" ELSE "failed"
    /\ tcpResult' = IF ok THEN tcpResult ELSE "Err"
    /\ UNCHANGED <<drainElapsed, connection_gauge, accepted, arrived,
                   connVars>>
    /\ UNCHANGED <<envVars, execVars, fnVars, skipped_at, hsVars>>

\* Fault: the accept stream is not cut by the shutdown signal.
AcceptYieldsAfterShutdown == listener = "listening"

\* accept_stream().take_until(shutdown_clone): take_until polls the shutdown
\* future before the accept stream, so nothing is yielded once it has fired.
AcceptYields == listener = "listening" /\ ~shutdown

\* A successful accept: open the gauge token, spawn handle_stream.  The
\* connections are numbered as the accept stream yields them.
AcceptOk ==
    /\ AcceptYields
    /\ arrived < MaxConns
    /\ arrived' = arrived + 1
    /\ accepted' = accepted + 1
    /\ hpc' = [hpc EXCEPT ![arrived + 1] = "handshake"]
    /\ connection_gauge' = GaugeOpen(connection_gauge)
    /\ handshake' = [handshake EXCEPT ![arrived + 1] = "pending"]
    /\ UNCHANGED <<listener, tcpResult, drainElapsed, frame_no, events_n,
                   event_i, write_shut, tcp_input, sent, acked>>
    /\ UNCHANGED <<envVars, execVars, fnVars, skipped_at, conn_errors>>

\* Fault: a failed accept ends the accept loop.
AcceptErrEndsLoop ==
    /\ AcceptYields
    /\ arrived < MaxConns
    /\ arrived' = arrived + 1
    /\ listener' = "closed"
    /\ tcpResult' = "Ok"
    /\ UNCHANGED <<drainElapsed, connection_gauge, accepted, connVars>>
    /\ UNCHANGED <<envVars, execVars, fnVars>>

\* A failed accept: error!(...) and return from the closure; for_each polls
\* the stream for the next result.
AcceptErr ==
    /\ AcceptYields
    /\ arrived < MaxConns
    /\ arrived' = arrived + 1
    /\ UNCHANGED <<listener, tcpResult, drainElapsed, connection_gauge,
                   accepted, connVars>>
    /\ UNCHANGED <<envVars, execVars, fnVars>>

\* The accept stream ends when shutdown fires; the source future is Ok(()).
SupervisorExit ==
    /\ listener = "listening"
    /\ shutdown
    /\ listener' = "closed"
    /\ tcpResult' = "Ok"
    /\ UNCHANGED <<drainElapsed, connection_gauge, accepted, arrived,
                   connVars>>
    /\ UNCHANGED <<envVars, execVars, fnVars, skipped_at, hsVars>>

\* The tripwire's sleep(shutdown_timeout_secs) runs out.
DrainElapses ==
    /\ source = "tcp"
    /\ shutdown
    /\ ~drainElapsed
    /\ drainElapsed' = TRUE
    /\ UNCHANGED <<listener, tcpResult, connection_gauge, accepted, arrived,
                   connVars>>
    /\ UNCHANGED <<envVars, execVars, fnVars, skipped_at, hsVars>>

\* ------------------------------------------------------------------------
\* TCP source: the connection handler (handle_stream)
\* ------------------------------------------------------------------------
\* Fault: the spawned task ends without dropping its token.
HandlerReturnKeepsToken(c) ==
    /\ hpc' = [hpc EXCEPT ![c] = "done"]
    /\ skipped_at' = [skipped_at EXCEPT ![c] = -1]
    /\ connection_gauge' = connection_gauge

\* The spawned task is fut.map(move |()| drop(open_token)): when
\* handle_stream returns, the gauge token is dropped.
HandlerReturn(c) ==
    /\ hpc' = [hpc EXCEPT ![c] = "done"]
    /\ skipped_at' = [skipped_at EXCEPT ![c] = -1]
    /\ connection_gauge' = GaugeClose(connection_gauge)

\* What every handler step leaves alone.
HandlerFrame ==
    UNCHANGED <<listener, tcpResult, drainElapsed, accepted, arrived, envVars,
                execVars,
                fnVars, hsVars>>

\* What the handshake select leaves alone, whichever branch wins.
HandshakeFrame ==
    UNCHANGED <<listener, tcpResult, drainElapsed, accepted, arrived, envVars,
                execVars,
                fnVars, frame_no, events_n, event_i, write_shut,
                tcp_input, sent, acked>>

\* select! { handshake() => Ok, ... }: socket tuning only warns; the framed
\* read loop starts.
HandshakeOk(c) ==
    /\ UNCHANGED skipped_at
    /\ hpc[c] = "handshake"
    /\ handshake' = [handshake EXCEPT ![c] = "Ok"]
    /\ hpc' = [hpc EXCEPT ![c] = "loop"]
    /\ UNCHANGED <<connection_gauge, conn_errors>>
    /\ HandshakeFrame

\* Fault: a failed handshake returns without emitting anything.
HandshakeErrSilent(c) ==
    /\ hpc[c] = "handshake"
    /\ handshake' = [handshake EXCEPT ![c] = "Err"]
    /\ HandlerReturn(c)
    /\ UNCHANGED conn_errors
    /\ HandshakeFrame

\* select! { handshake() => Err(error) }: emit TcpSocketConnectionError, return.
HandshakeErr(c) ==
    /\ hpc[c] = "handshake"
    /\ handshake' = [handshake EXCEPT ![c] = "Err"]
    /\ conn_errors' = [conn_errors EXCEPT ![c] = @ + 1]
    /\ HandlerReturn(c)
    /\ HandshakeFrame

\* select! { _ = &mut shutdown_signal => return } during the handshake: the
\* handshake future is dropped unfinished.
HandshakeShutdown(c) ==
    /\ hpc[c] = "handshake"
    /\ shutdown
    /\ HandlerReturn(c)
    /\ UNCHANGED hsVars
    /\ HandshakeFrame

\* loop { select! { _ = &mut tripwire => break, ... } }
LoopTripwire(c) ==
    /\ hpc[c] = "loop"
    /\ TripwireResolved
    /\ HandlerReturn(c)
    /\ UNCHANGED <<frame_no, events_n, event_i, write_shut, tcp_input, sent,
                   acked>>
    /\ HandlerFrame

\* Fault: the shutdown arm shuts the write half and leaves the loop.
LoopShutdownBreaks(c) ==
    /\ hpc[c] = "loop"
    /\ shutdown
    /\ ~write_shut[c]
    /\ write_shut' = [write_shut EXCEPT ![c] = TRUE]
    /\ HandlerReturn(c)
    /\ UNCHANGED <<frame_no, events_n, event_i, tcp_input, sent, acked>>
    /\ HandlerFrame

\* select! { _ = &mut shutdown_signal => socket.shutdown(Write) }: the
\* stream is established after a successful handshake, so the branch that
\* breaks ("not yet fully established") is not taken here.  The signal
\* future resolves once per handler.
LoopShutdown(c) ==
    /\ UNCHANGED skipped_at
    /\ hpc[c] = "loop"
    /\ shutdown
    /\ ~write_shut[c]
    /\ write_shut' = [write_shut EXCEPT ![c] = TRUE]
    /\ UNCHANGED <<connection_gauge, hpc, frame_no, events_n, event_i,
                   tcp_input, sent, acked>>
    /\ HandlerFrame

\* What a frame lifting into k events counts against MaxTcpInput.
InputCost(k) == IF k = 0 THEN 1 ELSE k

\* reader.next() => Some(Ok((item, byte_size))): build the ack, lift the item
\* into k events, and start sending the first one (k = 0: the for loop has
\* nothing to do, back to select).
ReadFrame(c, k) ==
    /\ UNCHANGED skipped_at
    /\ hpc[c] = "loop"
    /\ tcp_input + InputCost(k) <= MaxTcpInput
    /\ tcp_input' = tcp_input + InputCost(k)
    /\ frame_no' = [frame_no EXCEPT ![c] = @ + 1]
    /\ events_n' = [events_n EXCEPT ![c] = k]
    /\ event_i' = [event_i EXCEPT ![c] = IF k = 0 THEN 0 ELSE 1]
    /\ hpc' = [hpc EXCEPT ![c] = IF k = 0 THEN "loop" ELSE "send"]
    /\ UNCHANGED <<connection_gauge, write_shut, sent, acked>>
    /\ HandlerFrame

\* reader.next() => Some(Err(error)) with can_continue(&error): next iteration.
ReadErrContinue(c) ==
    /\ hpc[c] = "loop"
    /\ tcp_input < MaxTcpInput
    /\ tcp_input' = tcp_input + 1
    /\ skipped_at' = [skipped_at EXCEPT ![c] = frame_no[c]]
    /\ UNCHANGED hsVars
    /\ UNCHANGED <<connection_gauge, hpc, frame_no, events_n, event_i,
                   write_shut, sent, acked>>
    /\ UNCHANGED <<listener, tcpResult, drainElapsed, accepted, arrived, envVars,
                execVars,
                   fnVars>>

\* Fault: an error that cannot continue is warned about and the loop goes on.
ReadErrFatalGoesOn(c) ==
    /\ UNCHANGED skipped_at
    /\ hpc[c] = "loop"
    /\ tcp_input < MaxTcpInput
    /\ tcp_input' = tcp_input + 1
    /\ UNCHANGED <<connection_gauge, hpc, frame_no, events_n, event_i,
                   write_shut, sent, acked>>
    /\ HandlerFrame

\* reader.next() => Some(Err(error)) that cannot continue: warn, break.
ReadErrFatal(c) ==
    /\ hpc[c] = "loop"
    /\ tcp_input < MaxTcpInput
    /\ tcp_input' = tcp_input + 1
    /\ HandlerReturn(c)
    /\ UNCHANGED <<frame_no, events_n, event_i, write_shut, sent, acked>>
    /\ HandlerFrame

\* reader.next() => None: the peer closed; break.
ReadEof(c) ==
    /\ hpc[c] = "loop"
    /\ HandlerReturn(c)
    /\ UNCHANGED <<frame_no, events_n, event_i, write_shut, tcp_input, sent,
                   acked>>
    /\ HandlerFrame

\* The frame's `events` and the iterator over them go out of scope.
EventsDropped(c) ==
    /\ events_n' = [events_n EXCEPT ![c] = 0]
    /\ event_i' = [event_i EXCEPT ![c] = 0]

\* out.send(event).await => Ok: the sink accepted the event; the handler goes
\* on to stream.write_all(&ack).
SendOk(c) ==
    /\ UNCHANGED skipped_at
    /\ hpc[c] = "send"
    /\ ~sinkClosed
    /\ hpc' = [hpc EXCEPT ![c] = "ack"]
    /\ sent' = [sent EXCEPT ![c] = @ + 1]
    /\ UNCHANGED <<connection_gauge, frame_no, events_n, event_i, write_shut,
                   tcp_input, acked>>
    /\ HandlerFrame

\* Where a `break` inside `for event in events` leads: it leaves the for
\* loop, whose end is the end of the select! arm, so the enclosing `loop`
\* goes round again.
AfterForBreak == "loop"

\* Fault: a failed send falls through to the ack write.
SendErrAcks(c) ==
    /\ UNCHANGED skipped_at
    /\ hpc[c] = "send"
    /\ sinkClosed
    /\ hpc' = [hpc EXCEPT ![c] = "ack"]
    /\ UNCHANGED <<connection_gauge, frame_no, events_n, event_i, write_shut,
                   tcp_input, sent, acked>>
    /\ HandlerFrame

\* out.send(event).await => Err: warn!("Failed to send event."); break.
SendErr(c) ==
    /\ UNCHANGED skipped_at
    /\ hpc[c] = "send"
    /\ sinkClosed
    /\ hpc' = [hpc EXCEPT ![c] = AfterForBreak]
    /\ EventsDropped(c)
    /\ UNCHANGED <<connection_gauge, frame_no, write_shut, tcp_input, sent,
                   acked>>
    /\ HandlerFrame

\* stream.write_all(&ack).await => Ok: next event of the frame, or, after
\* the last one, back to select.
AckOk(c) ==
    /\ UNCHANGED skipped_at
    /\ hpc[c] = "ack"
    /\ acked' = [acked EXCEPT ![c] = @ + 1]
    /\ IF event_i[c] < events_n[c]
       THEN /\ event_i' = [event_i EXCEPT ![c] = @ + 1]
            /\ events_n' = events_n
            /\ hpc' = [hpc EXCEPT ![c] = "send"]
       ELSE /\ EventsDropped(c)
            /\ hpc' = [hpc EXCEPT ![c] = "loop"]
    /\ UNCHANGED <<connection_gauge, frame_no, write_shut, tcp_input, sent>>
    /\ HandlerFrame

\* stream.write_all(&ack).await => Err: emit TcpSendAckError; break.
AckErr(c) ==
    /\ UNCHANGED skipped_at
    /\ hpc[c] = "ack"
    /\ hpc' = [hpc EXCEPT ![c] = AfterForBreak]
    /\ EventsDropped(c)
    /\ UNCHANGED <<connection_gauge, frame_no, write_shut, tcp_input, sent,
                   acked>>
    /\ HandlerFrame

\* A result slot before the function has returned.
NoRet == [tag |-> "none", val |-> 0]

\* No function is called on its own in a program run as a source.
FdOff ==
    /\ fd_str = <<>>
    /\ fd_ret = NoRet

ReaderOff ==
    /\ event_per_line = FALSE
    /\ buf_size = 0
    /\ stream_tag = "none"
    /\ reader = <<>>
    /\ nread = 0
    /\ nreads = 0
    /\ buffer = <<>>
    /\ next_index = 0
    /\ is_discarding = FALSE
    /\ is_readable = FALSE
    /\ eof = FALSE
    /\ task = "off"
    /\ rx_open = FALSE
    /\ received = <<>>

\* Option<T>.
None == [some |-> FALSE]

Some(v) == [some |-> TRUE, val |-> v]

\* No Event yet.
NoEvent == [emitted |-> <<>>, log |-> <<>>]

CeOff ==
    /\ ce_args = [hostname |-> None, line |-> <<>>, data_stream |-> None,
                  pid |-> None, command |-> <<>>, now |-> 0]
    /\ ce_ret = NoEvent

FnOff ==
    /\ call = "none"
    /\ FdOff
    /\ ReaderOff
    /\ CeOff

\* The EXEC source is not part of a program run as a TCP source.
ExecOff ==
    /\ mode = "none"
    /\ include_stderr = FALSE
    /\ epc = "off"
    /\ supResult = "none"
    /\ clk = 0
    /\ sleepDone = FALSE
    /\ rpc = "idle"
    /\ result = "none"
    /\ rd = [s \in Streams |-> "off"]
    /\ dec = [s \in Streams |-> 0]
    /\ chan = <<>>
    /\ cur = <<>>
    /\ delivered = [s \in Streams |-> <<>>]
    /\ nruns = 0
    /\ run = NoRun
    /\ telemetry = <<>>
    /\ detached = FALSE

\* The TCP source right after TcpSource::run built its future.
TcpInit ==
    /\ source = "tcp"
    /\ shutdown = FALSE
    /\ sinkClosed = FALSE
    /\ listener = "init"
    /\ tcpResult = "none"
    /\ drainElapsed = FALSE
    /\ connection_gauge = 0
    /\ accepted = 0
    /\ arrived = 0
    /\ hpc = [c \in Conns |-> "none"]
    /\ frame_no = [c \in Conns |-> 0]
    /\ events_n = [c \in Conns |-> 0]
    /\ event_i = [c \in Conns |-> 0]
    /\ write_shut = [c \in Conns |-> FALSE]
    /\ tcp_input = 0
    /\ sent = [c \in Conns |-> 0]
    /\ acked = [c \in Conns |-> 0]
    /\ skipped_at = [c \in Conns |-> -1]
    /\ handshake = [c \in Conns |-> "none"]
    /\ conn_errors = [c \in Conns |-> 0]
    /\ ExecOff
    /\ FnOff

\* ------------------------------------------------------------------------
\* Environment shared by both sources
\* ------------------------------------------------------------------------
\* The shutdown signal fires (once).
ShutdownFire ==
    /\ ~shutdown
    /\ shutdown' = TRUE
    /\ UNCHANGED <<source, sinkClosed, tcpVars, execVars, fnVars>>

\* The downstream sink closes: sends fail from now on.
SinkCloses ==
    /\ ~sinkClosed
    /\ sinkClosed' = TRUE
    /\ UNCHANGED <<source, shutdown, tcpVars, execVars, fnVars>>

vars == <<envVars, tcpVars, execVars, fnVars>>

TcpNext ==
    \/ ShutdownFire
    \/ SinkCloses
    \/ \E ok \in BOOLEAN : MakeListener(ok)
    \/ AcceptOk
    \/ AcceptErr
    \/ SupervisorExit
    \/ DrainElapses
    \/ \E c \in Conns : HandshakeOk(c)
    \/ \E c \in Conns : HandshakeErr(c)
    \/ \E c \in Conns : HandshakeShutdown(c)
    \/ \E c \in Conns : LoopTripwire(c)
    \/ \E c \in Conns : LoopShutdown(c)
    \/ \E c \in Conns : \E k \in 0..MaxTcpInput : ReadFrame(c, k)
    \/ \E c \in Conns : ReadErrContinue(c)
    \/ \E c \in Conns : ReadErrFatal(c)
    \/ \E c \in Conns : ReadEof(c)
    \/ \E c \in Conns : SendOk(c)
    \/ \E c \in Conns : SendErr(c)
    \/ \E c \in Conns : AckOk(c)
    \/ \E c \in Conns : AckErr(c)

\* The program run as a TCP source.
SpecTcp == TcpInit /\ [][TcpNext]_vars

\* The shutdown signal wakes the task that polls the accept stream, and the
\* runtime polls a woken task: the supervisor's exit is not put off for ever.
FairTcp == SpecTcp /\ WF_vars(SupervisorExit)

\* ------------------------------------------------------------------------
\* EXEC source: the child process and the command runner (run_command)
\* ------------------------------------------------------------------------
\* The TCP source is not part of a program run as an EXEC source.
TcpOff ==
    /\ listener = "off"
    /\ tcpResult = "none"
    /\ drainElapsed = FALSE
    /\ connection_gauge = 0
    /\ accepted = 0
    /\ arrived = 0
    /\ hpc = [c \in Conns |-> "none"]
    /\ frame_no = [c \in Conns |-> 0]
    /\ events_n = [c \in Conns |-> 0]
    /\ event_i = [c \in Conns |-> 0]
    /\ write_shut = [c \in Conns |-> FALSE]
    /\ tcp_input = 0
    /\ sent = [c \in Conns |-> 0]
    /\ acked = [c \in Conns |-> 0]
    /\ skipped_at = [c \in Conns |-> -1]
    /\ handshake = [c \in Conns |-> "none"]
    /\ conn_errors = [c \in Conns |-> 0]

\* What every step of the EXEC source leaves alone.
ExecFrame == UNCHANGED <<envVars, tcpVars, cfgVars, fnVars>>

\* Fault: a command built without kill_on_drop.
DropChildNoKill(proc) == proc

\* command.kill_on_drop(true): dropping the Child handle kills a child that
\* is still running; one that has exited stays as it is.
DropChild(proc) == IF proc = "alive" THEN "killed" ELSE proc

\* A run's record.
Run(start, proc, ret) == [start |-> start, proc |-> proc, code |-> "none", ret |-> ret]

ChildAlive == run.proc = "alive"

ActiveReaders == {s \in Streams : rd[s] \in {"read", "push"}}

\* The runner's locals are gone: the receiver is dropped, the reader tasks
\* (tokio::spawn, detached) that have not finished live on without it.
RunnerGone ==
    /\ rpc' = "idle"
    /\ result' = "none"
    /\ rd' = [s \in Streams |-> "off"]
    /\ dec' = [s \in Streams |-> 0]
    /\ chan' = <<>>
    /\ cur' = <<>>
    /\ delivered' = [s \in Streams |-> <<>>]
    /\ detached' = (detached \/ ActiveReaders # {})

\* The ways the first poll of run_command can go: command.spawn()? fails,
\* child.stderr.take() is None, child.stdout.take() is None, or the readers
\* are spawned and the runner waits in receiver.recv().
StartOutcomes == {"spawn_failed", "no_stderr", "no_stdout", "ok"}

\* run_command up to its first suspension point.
RunCommandStart(outcome) ==
    /\ outcome \in StartOutcomes
    \* stderr is taken only `if config.include_stderr`
    /\ outcome = "no_stderr" => include_stderr
    /\ nruns < MaxRuns
    /\ nruns' = nruns + 1
    /\ run' = CASE outcome = "spawn_failed" -> Run(outcome, "none", "Err")
                [] outcome = "ok" -> Run(outcome, "alive", "pending")
                [] OTHER -> Run(outcome, DropChild("alive"), "Err")
    /\ rpc' = IF outcome = "ok" THEN "recv" ELSE "idle"
    /\ rd' = [s \in Streams |->
                IF outcome # "ok" THEN "off"
                ELSE IF s = "stderr" /\ ~include_stderr THEN "off" ELSE "read"]
    \* no_stdout with include_stderr: the stderr reader was already spawned
    /\ detached' = (detached \/ (outcome = "no_stdout" /\ include_stderr))
    /\ UNCHANGED <<result, dec, chan, cur, delivered>>

\* run_command polled once and dropped in the same poll of its owner: the
\* child is spawned, the readers are spawned, then the future is dropped.
RunCommandStartThenDrop ==
    /\ nruns < MaxRuns
    /\ nruns' = nruns + 1
    /\ run' = Run("ok", DropChild("alive"), "dropped")
    /\ detached' = TRUE
    /\ UNCHANGED runVars

\* Fault: dropping the run_command future leaves its child running.
RunCommandDropLeavesChild ==
    /\ run' = [run EXCEPT !.ret = "dropped"]
    /\ UNCHANGED nruns
    /\ RunnerGone

\* The run_command future of the run in progress is dropped by its owner.
RunCommandDrop ==
    /\ run' = [run EXCEPT !.proc = DropChild(@), !.ret = "dropped"]
    /\ UNCHANGED nruns
    /\ RunnerGone

\* Fault: a failed run reported as a timeout.
ExecFailedAsTimeout == [ev |-> "ExecTimeout", exit_status |-> "-", elapsed_seconds |-> 0]

ExecFailed == [ev |-> "ExecFailed", exit_status |-> "-", elapsed_seconds |-> 0]

ExecTimeout(secs) == [ev |-> "ExecTimeout", exit_status |-> "-", elapsed_seconds |-> secs]

\* Fault: a finished run reported as a failed one.
ExecCommandExecutedAsFailed(st) == [ev |-> "ExecFailed", exit_status |-> st, elapsed_seconds |-> 0]

ExecCommandExecuted(st) == [ev |-> "ExecCommandExecuted", exit_status |-> st, elapsed_seconds |-> 0]

\* The child exits by itself.  Its exit status is read by try_wait only, and
\* is chosen where it is read.
ChildExit ==
    /\ run.proc = "alive"
    /\ run' = [run EXCEPT !.proc = "exited"]
    /\ UNCHANGED <<epc, supResult, clk, sleepDone, runVars, nruns, telemetry, detached>>
    /\ ExecFrame

\* Fault: a channel that hands out the newest frame first.
ChanSendFront(q, x) == <<x>> \o q

\* tokio mpsc: send appends at the back of the queue.
ChanSend(q, x) == Append(q, x)

\* Fault: a channel without a capacity.
ChanHasRoomAlways(q) == TRUE

\* channel(1024): send completes while fewer frames than the capacity are
\* queued.
ChanHasRoom(q) == Len(q) < ChanCap

\* ---- reader tasks (spawn_reader_thread)
\* The reader is wrapped in allow_read_until(shutdown): end-of-stream once the
\* shutdown signal has fired; otherwise the pipe ends when the child is gone.
ReadAtEof == shutdown \/ ~ChildAlive

\* bytes_stream.next() => Some(Ok(frame)): bytes already written by the child
\* (or still buffered) decode into the next frame; sender.send completes in
\* the same poll when the channel has room, and suspends the task otherwise.
ReaderRead(s) ==
    /\ rd[s] = "read"
    /\ dec["stdout"] + dec["stderr"] < MaxFrames
    /\ dec' = [dec EXCEPT ![s] = @ + 1]
    /\ IF ChanHasRoom(chan)
       THEN chan' = ChanSend(chan, <<s, dec[s] + 1>>) /\ rd' = rd
       ELSE chan' = chan /\ rd' = [rd EXCEPT ![s] = "push"]
    /\ UNCHANGED <<epc, supResult, clk, sleepDone, rpc, result, cur,
                   delivered, nruns, run, telemetry, detached>>
    /\ ExecFrame

\* bytes_stream.next() => None: the task ends and its sender is dropped.
ReaderEof(s) ==
    /\ rd[s] = "read"
    /\ ReadAtEof
    /\ rd' = [rd EXCEPT ![s] = "done"]
    /\ UNCHANGED <<epc, supResult, clk, sleepDone, rpc, result, dec, chan, cur,
                   delivered, nruns, run, telemetry, detached>>
    /\ ExecFrame

\* The child closes its end of one pipe and lives on: the reader of that pipe
\* gets bytes_stream.next() => None, its task ends and its sender is dropped.
ChildClosesPipe(s) ==
    /\ rd[s] = "read"
    /\ ChildAlive
    /\ rd' = [rd EXCEPT ![s] = "done"]
    /\ UNCHANGED <<epc, supResult, clk, sleepDone, rpc, result, dec, chan, cur,
                   delivered, nruns, run, telemetry, detached>>
    /\ ExecFrame

\* A suspended sender.send((frame, stream)).await completes when the channel
\* has room again.
ReaderPush(s) ==
    /\ rd[s] = "push"
    /\ ChanHasRoom(chan)
    /\ chan' = ChanSend(chan, <<s, dec[s]>>)
    /\ rd' = [rd EXCEPT ![s] = "read"]
    /\ UNCHANGED <<epc, supResult, clk, sleepDone, rpc, result, dec, cur,
                   delivered, nruns, run, telemetry, detached>>
    /\ ExecFrame

\* The last reader task without its runner ends: its send fails (receiver
\* dropped) or its read reaches end-of-stream (the child is gone).
OrphanExit ==
    /\ detached
    /\ detached' = FALSE
    /\ UNCHANGED <<epc, supResult, clk, sleepDone, runVars, nruns, run, telemetry>>
    /\ ExecFrame

\* ---- the runner's receive loop
\* receiver.recv().await => Some((line, stream)): create_event, then out.send.
RunnerRecv ==
    /\ rpc = "recv"
    /\ chan # <<>>
    /\ cur' = Head(chan)
    /\ chan' = Tail(chan)
    /\ rpc' = "send"
    /\ UNCHANGED <<epc, supResult, clk, sleepDone, result, rd, dec, delivered,
                   nruns, run, telemetry, detached>>
    /\ ExecFrame

\* out.send(event).await => Ok.
RunnerSendOk ==
    /\ rpc = "send"
    /\ ~sinkClosed
    /\ delivered' = [delivered EXCEPT ![cur[1]] = Append(@, cur[2])]
    /\ cur' = <<>>
    /\ rpc' = "recv"
    /\ UNCHANGED <<epc, supResult, clk, sleepDone, result, rd, dec, chan, nruns, run,
                   telemetry, detached>>
    /\ ExecFrame

\* Fault: a closed sink ends the receive loop.
RunnerSendClosedBreaks ==
    /\ rpc = "send"
    /\ sinkClosed
    /\ cur' = <<>>
    /\ telemetry' = Append(telemetry, ExecCommandExecuted("None"))
    /\ result' = "Ok"
    /\ rpc' = "flush"
    /\ UNCHANGED <<epc, supResult, clk, sleepDone, rd, dec, chan, delivered,
                   nruns, run, detached>>
    /\ ExecFrame

\* out.send(event).await => Err(ClosedError): error!(...), the event is
\* dropped and the loop goes on.
RunnerSendClosed ==
    /\ rpc = "send"
    /\ sinkClosed
    /\ cur' = <<>>
    /\ rpc' = "recv"
    /\ UNCHANGED <<epc, supResult, clk, sleepDone, result, rd, dec, chan,
                   delivered, nruns, run, telemetry, detached>>
    /\ ExecFrame

\* Fault: the stdout reader's sender taken for the only one.
SendersStdoutOnly == IF rd["stdout"] \in {"read", "push"} THEN 1 ELSE 0

\* Fault: the runner keeps a sender of its own.
SendersWithRunner == Cardinality(ActiveReaders) + 1

\* Senders of the frame channel: `sender.clone()` went to the stderr reader and
\* `sender` itself was moved into the stdout reader; the runner keeps none.
Senders == Cardinality(ActiveReaders)

\* child.try_wait() can answer Ok(Some(status)), Ok(None) or Err(error).
\* An exit status: exit code 0, a non-zero exit code, or ended by a signal.
ExitCodes == {"0", "1", "signal"}

TryWaitOutcomes == ExitCodes \cup {"running", "error"}

TryWaitCan(tw) == (tw = "running" => ChildAlive) /\ (tw \in ExitCodes => ~ChildAlive)

\* The exit_status handed to ExecCommandExecuted.
\* exit_status.code() is None for a child ended by a signal; Ok(None) and
\* Err(error) hand None to handle_exit_status.
ExitStatusOf(tw) == IF tw \in {"0", "1"} THEN tw ELSE "None"

\* Fault: a try_wait error handed on as the run's error.
TryWaitResultPropagated(tw) == IF tw = "error" THEN "Err" ELSE "Ok"

\* `result`: Ok(Some(exit_status)), Ok(None), and Ok(None) again on Err.
TryWaitResult(tw) == "Ok"

\* receiver.recv().await => None (every sender dropped, queue empty):
\* try_wait, handle_exit_status, then out.flush().
RunnerChannelClosed(tw) ==
    /\ rpc = "recv"
    /\ chan = <<>>
    /\ Senders = 0
    /\ tw \in TryWaitOutcomes
    /\ TryWaitCan(tw)
    /\ run' = [run EXCEPT !.code = IF tw \in ExitCodes THEN tw ELSE @]
    /\ telemetry' = Append(telemetry, ExecCommandExecuted(ExitStatusOf(tw)))
    /\ result' = TryWaitResult(tw)
    /\ rpc' = "flush"
    /\ UNCHANGED <<epc, supResult, clk, sleepDone, rd, dec, chan, cur,
                   delivered, nruns, detached>>
    /\ ExecFrame

\* out.flush().await is over and run_command returns `result`; `child` is
\* dropped.  The supervisor that awaits the future goes on in the same poll:
\* it emits ExecFailed on Err, then waits for the next tick (scheduled), for
\* the respawn sleep (streaming with respawn), or returns Ok(()).
RunnerFlushDone ==
    /\ rpc = "flush"
    /\ run' = [run EXCEPT !.proc = DropChild(@), !.ret = result]
    /\ UNCHANGED nruns
    /\ RunnerGone
    /\ telemetry' = IF result = "Err" THEN Append(telemetry, ExecFailed) ELSE telemetry
    /\ epc' = CASE mode = "scheduled" -> "tick"
                [] mode = "respawn" -> "cooldown"
                [] OTHER -> "done"
    /\ supResult' = IF mode = "once" THEN "Ok" ELSE supResult
    /\ sleepDone' = FALSE
    /\ UNCHANGED clk
    /\ ExecFrame

\* ------------------------------------------------------------------------
\* EXEC source: scheduled supervisor (run_scheduled)
\* ------------------------------------------------------------------------
\* Fault: an interval stream that is not taken until shutdown.
TickYieldsAfterShutdown == clk >= Interval

\* IntervalStream::new(time::interval(schedule)).take_until(shutdown.clone()):
\* take_until polls the shutdown future first; a tick is due every Interval
\* (the first one at once).
TickYields == ~shutdown /\ clk >= Interval

\* Fault: a deadline that only interrupts the receive loop.
TimeoutArmedRecvOnly(r) == r = "recv"

\* tokio::time::timeout(schedule, run_command(..)) wraps the whole future: the
\* deadline is observed at every suspension point of the runner.
TimeoutArmed(r) == r \in {"recv", "send", "flush"}

\* while interval.next().await.is_some() { timeout(schedule, run_command) ... }
\* up to the runner's first suspension point; a runner that fails at once is
\* answered with ExecFailed and the loop waits for the next tick.
ScheduledTick(outcome) ==
    /\ mode = "scheduled"
    /\ epc = "tick"
    /\ TickYields
    /\ RunCommandStart(outcome)
    /\ clk' = 0
    /\ epc' = IF outcome = "ok" THEN "run" ELSE "tick"
    /\ telemetry' = IF outcome = "ok" THEN <<>> ELSE <<ExecFailed>>
    /\ UNCHANGED <<supResult, sleepDone>>
    /\ ExecFrame

\* interval.next() => None once shutdown has fired: the loop ends, Ok(()).
ScheduledExit ==
    /\ mode = "scheduled"
    /\ epc = "tick"
    /\ shutdown
    /\ epc' = "done"
    /\ supResult' = "Ok"
    /\ UNCHANGED <<clk, sleepDone, runVars, nruns, run, telemetry, detached>>
    /\ ExecFrame

\* timeout_result = Err(Elapsed): the run_command future is dropped,
\* ExecTimeout { elapsed_seconds: schedule.as_secs() } is emitted.
ScheduledTimeout ==
    /\ mode = "scheduled"
    /\ epc = "run"
    /\ clk >= Interval
    /\ TimeoutArmed(rpc)
    /\ RunCommandDrop
    /\ telemetry' = Append(telemetry, ExecTimeout(Interval))
    /\ epc' = "tick"
    /\ UNCHANGED <<supResult, clk, sleepDone>>
    /\ ExecFrame

\* A clock step.  The clock stands at a due tick, and at a deadline that an
\* armed timeout is about to answer.
TimePasses ==
    /\ mode = "scheduled"
    /\ \/ epc \in {"tick", "run"} /\ clk < Interval
       \/ epc = "run" /\ ~TimeoutArmed(rpc) /\ clk < Interval + 1
    /\ clk' = clk + 1
    /\ UNCHANGED <<epc, supResult, sleepDone, runVars, nruns, run, telemetry, detached>>
    /\ ExecFrame

\* ------------------------------------------------------------------------
\* EXEC source: streaming supervisor (run_streaming)
\* ------------------------------------------------------------------------
\* tokio::select! polls its branches starting from a random one.
SelectOrders == {"shutdown_first", "run_first"}

\* One poll of
\*   select! { _ = shutdown.clone() => break, output = run_command(..) => .. }
\* with a fresh run_command future.  Polling that future runs it up to its
\* first suspension point, which spawns the child.
FirstSelect(order) ==
    \/ /\ order = "shutdown_first"
       /\ shutdown
       /\ epc' = "done"
       /\ supResult' = "Ok"
       /\ UNCHANGED <<sleepDone, runVars, nruns, run, telemetry, detached>>
    \/ \E outcome \in StartOutcomes \ {"ok"} :
       /\ order = "run_first" \/ ~shutdown
       /\ RunCommandStart(outcome)
       /\ telemetry' = <<ExecFailed>>
       /\ epc' = "cooldown"
       /\ sleepDone' = FALSE
       /\ UNCHANGED supResult
    \/ /\ ~shutdown
       /\ RunCommandStart("ok")
       /\ telemetry' = <<>>
       /\ epc' = "run"
       /\ UNCHANGED <<supResult, sleepDone>>
    \/ /\ order = "run_first"
       /\ shutdown
       /\ RunCommandStartThenDrop
       /\ telemetry' = <<>>
       /\ epc' = "done"
       /\ supResult' = "Ok"
       /\ UNCHANGED sleepDone

\* The first iteration of the respawn loop.
StreamStart(order) ==
    /\ mode = "respawn"
    /\ epc = "start"
    /\ FirstSelect(order)
    /\ UNCHANGED clk
    /\ ExecFrame

\* select! { _ = shutdown.clone() => break, .. } while the runner is pending:
\* the run_command future is dropped.
StreamShutdownBreak ==
    /\ mode = "respawn"
    /\ epc = "run"
    /\ shutdown
    /\ RunCommandDrop
    /\ epc' = "done"
    /\ supResult' = "Ok"
    /\ UNCHANGED <<clk, sleepDone, telemetry>>
    /\ ExecFrame

\* sleep(respawn_interval_secs) runs out.
SleepElapses ==
    /\ epc = "cooldown"
    /\ ~sleepDone
    /\ sleepDone' = TRUE
    /\ UNCHANGED <<epc, supResult, clk, runVars, nruns, run, telemetry, detached>>
    /\ ExecFrame

\* select! { _ = &mut poll_shutdown => break, _ = sleep(duration) => .. }
\* resolved by shutdown.
StreamCooldownBreak ==
    /\ epc = "cooldown"
    /\ shutdown
    /\ epc' = "done"
    /\ supResult' = "Ok"
    /\ UNCHANGED <<clk, sleepDone, runVars, nruns, run, telemetry, detached>>
    /\ ExecFrame

\* ... resolved by the sleep: "Restarting streaming process.", and the loop
\* polls its first select in the same poll.
StreamRestart(order) ==
    /\ epc = "cooldown"
    /\ sleepDone
    /\ FirstSelect(order)
    /\ UNCHANGED clk
    /\ ExecFrame

\* respawn_on_exit = false: run_command(..).await, ExecFailed on Err, Ok(()).
OnceStart(outcome) ==
    /\ mode = "once"
    /\ epc = "start"
    /\ RunCommandStart(outcome)
    /\ epc' = IF outcome = "ok" THEN "run" ELSE "done"
    /\ supResult' = IF outcome = "ok" THEN supResult ELSE "Ok"
    /\ telemetry' = IF outcome = "ok" THEN <<>> ELSE <<ExecFailed>>
    /\ UNCHANGED <<clk, sleepDone>>
    /\ ExecFrame

Modes == {"scheduled", "respawn", "once"}

\* The EXEC source right after SourceConfig::build chose the supervisor.
ExecInit ==
    /\ source = "exec"
    /\ shutdown = FALSE
    /\ sinkClosed = FALSE
    /\ TcpOff
    /\ mode \in Modes
    /\ include_stderr \in BOOLEAN
    /\ epc = IF mode = "scheduled" THEN "tick" ELSE "start"
    /\ supResult = "none"
    /\ clk = IF mode = "scheduled" THEN Interval ELSE 0
    /\ sleepDone = FALSE
    /\ rpc = "idle"
    /\ result = "none"
    /\ rd = [s \in Streams |-> "off"]
    /\ dec = [s \in Streams |-> 0]
    /\ chan = <<>>
    /\ cur = <<>>
    /\ delivered = [s \in Streams |-> <<>>]
    /\ nruns = 0
    /\ run = NoRun
    /\ telemetry = <<>>
    /\ detached = FALSE
    /\ FnOff

SupervisorStep ==
    \/ \E outcome \in StartOutcomes : ScheduledTick(outcome)
    \/ ScheduledExit
    \/ ScheduledTimeout
    \/ \E order \in SelectOrders : StreamStart(order)
    \/ StreamShutdownBreak
    \/ StreamCooldownBreak
    \/ \E order \in SelectOrders : StreamRestart(order)
    \/ \E outcome \in StartOutcomes : OnceStart(outcome)

RunnerStep ==
    \/ RunnerRecv
    \/ RunnerSendOk
    \/ RunnerSendClosed
    \/ \E tw \in TryWaitOutcomes : RunnerChannelClosed(tw)
    \/ RunnerFlushDone

ReaderStep(s) ==
    \/ ReaderEof(s)
    \/ ReaderPush(s)

ExecNext ==
    \/ ShutdownFire
    \/ SinkCloses
    \/ TimePasses
    \/ SleepElapses
    \/ ChildExit
    \/ \E s \in Streams : ChildClosesPipe(s)
    \/ \E s \in Streams : ReaderRead(s)
    \/ \E s \in Streams : ReaderEof(s)
    \/ \E s \in Streams : ReaderPush(s)
    \/ OrphanExit
    \/ RunnerRecv
    \/ RunnerSendOk
    \/ RunnerSendClosed
    \/ \E tw \in TryWaitOutcomes : RunnerChannelClosed(tw)
    \/ RunnerFlushDone
    \/ \E outcome \in StartOutcomes : ScheduledTick(outcome)
    \/ ScheduledExit
    \/ ScheduledTimeout
    \/ \E order \in SelectOrders : StreamStart(order)
    \/ StreamShutdownBreak
    \/ StreamCooldownBreak
    \/ \E order \in SelectOrders : StreamRestart(order)
    \/ \E outcome \in StartOutcomes : OnceStart(outcome)

\* The program run as an EXEC source.
SpecExec == ExecInit /\ [][ExecNext]_vars

\* A step of one of the program's tasks.
ProgramStep ==
    \/ SupervisorStep
    \/ RunnerStep
    \/ \E s \in Streams : ReaderStep(s)
    \/ OrphanExit

\* The same, with the scheduling the runtime and the collaborators give: as
\* long as some task can take a step, a task is polled, and the sink
\* completes each send and flush.  The child, the clock, the pipes and the
\* shutdown signal owe nothing: a child may keep a pipe open and stay silent.
FairExec == SpecExec /\ WF_vars(ProgramStep)

\* ------------------------------------------------------------------------
\* parse_systemd_fd: the `systemd` / `systemd#N` form of a listen address
\* ------------------------------------------------------------------------
\* Width of usize in the model; the 64 bits of the code are scaled down so
\* that numerals too large for a usize are among the inputs.
UsizeBits == 6
\* Characters after the prefix, in the inputs the model draws.
MaxFdSuffix == 3

UsizeMax == 2^UsizeBits - 1

Ok(v) == [tag |-> "Ok", val |-> v]

Err == [tag |-> "Err", val |-> 0]

Digits == {"0", "1", "2", "9"}

DigitVal(c) == CASE c = "0" -> 0 [] c = "1" -> 1 [] c = "2" -> 2 [] c = "9" -> 9

\* The digit loop of <usize as FromStr>::from_str: a character that is not a
\* digit is an error, and so is a value beyond usize::MAX.
RECURSIVE ParseDigits(_, _)
ParseDigits(t, acc) ==
    IF t = <<>> THEN Ok(acc)
    ELSE IF Head(t) \notin Digits THEN Err
    ELSE LET n == acc * 10 + DigitVal(Head(t))
         IN  IF n > UsizeMax THEN Err ELSE ParseDigits(Tail(t), n)

\* str::parse::<usize>: an optional "+", then at least one digit.
ParseUsize(t) ==
    LET d == IF t # <<>> /\ Head(t) = "+" THEN Tail(t) ELSE t
    IN  IF d = <<>> THEN Err ELSE ParseDigits(d, 0)

\* Fault: a subtraction that wraps around instead of failing.
WrappingSub(n, k) == Ok((n - k) % (UsizeMax + 1))

\* usize::checked_sub, with ok_or_else mapping None to an error.
CheckedSub(n, k) == IF n >= k THEN Ok(n - k) ELSE Err

Systemd == <<"s", "y", "s", "t", "e", "m", "d">>

SystemdHash == Systemd \o <<"#">>

StartsWith(s, prefix) ==
    /\ Len(s) >= Len(prefix)
    /\ SubSeq(s, 1, Len(prefix)) = prefix

\* The match of parse_systemd_fd; s[8..] is the string after its first
\* eight bytes.
parse_systemd_fd(s) ==
    IF s = Systemd THEN Ok(0)
    ELSE IF StartsWith(s, SystemdHash)
    THEN LET n == ParseUsize(SubSeq(s, 9, Len(s)))
         IN  IF n.tag = "Err" THEN Err ELSE CheckedSub(n.val, 1)
    ELSE Err

\* The strings the model hands to parse_systemd_fd: a prefix that is, or
\* resembles, "systemd#", and a short suffix.
FdChars == Digits \cup {"#", "+", "-", "x"}

FdSuffixes == UNION {[1..n -> FdChars] : n \in 0..MaxFdSuffix}

FdPrefixes ==
    {<<>>, Systemd, SystemdHash, <<"s", "y", "s", "t", "e", "m">>,
     <<"S">> \o Tail(SystemdHash), <<"x">> \o SystemdHash}

FdStrings == {p \o t : p \in FdPrefixes, t \in FdSuffixes}

\* The deserializer calls parse_systemd_fd on the string of the `address`
\* option.
ParseSystemdFd ==
    /\ call = "parse_systemd_fd"
    /\ fd_ret = NoRet
    /\ fd_ret' = parse_systemd_fd(fd_str)
    /\ UNCHANGED <<envVars, tcpVars, execVars, call, fd_str, readerVars, ceVars>>

\* ------------------------------------------------------------------------
\* spawn_reader_thread: a FramedRead over the reader, with the line codec
\* or the sized-blob codec, and the send of each frame into the channel
\* ------------------------------------------------------------------------
\* Bytes of the reader's input in the model.
MaxBytes == 4
\* Largest max_length (buf_size) in the model.
MaxBufSize == 2

\* A letter, the line feed, the carriage return, and a byte that no UTF-8
\* text contains.
Bytes == {"a", "LF", "CR", "FF"}

Min(a, b) == IF a <= b THEN a ELSE b

\* The state of a codec over the buffer.
Codec(buf, idx, disc) == [buffer |-> buf, next_index |-> idx, is_discarding |-> disc]

\* What a decode call returns, and the codec state it leaves.
Decoded(res, frame, st) == [res |-> res, frame |-> frame, st |-> st]

\* without_carriage_return of the line codec.
WithoutCarriageReturn(line) ==
    IF line # <<>> /\ line[Len(line)] = "CR"
    THEN SubSeq(line, 1, Len(line) - 1)
    ELSE line

\* utf8 of the line codec: a line that is not UTF-8 is an error.
Utf8Ok(line) == \A i \in 1..Len(line) : line[i] # "FF"

\* The line, or the error, that ends a decode call of the line codec.
LineOf(bytes, st) ==
    IF Utf8Ok(WithoutCarriageReturn(bytes))
    THEN Decoded("frame", WithoutCarriageReturn(bytes), st)
    ELSE Decoded("err", <<>>, st)

\* LinesCodec::decode with a max_length of M.
RECURSIVE LinesDecode(_, _)
LinesDecode(M, st) ==
    LET buf == st.buffer
        read_to == Min(M + 1, Len(buf))
        newlines == {i \in (st.next_index + 1)..read_to : buf[i] = "LF"}
        newline == CHOOSE i \in newlines : \A j \in newlines : i <= j
    IN  IF st.is_discarding /\ newlines # {}
        THEN LinesDecode(M, Codec(SubSeq(buf, newline + 1, Len(buf)), 0, FALSE))
        ELSE IF st.is_discarding
        THEN IF read_to = Len(buf)
             THEN Decoded("none", <<>>, Codec(<<>>, 0, TRUE))
             ELSE LinesDecode(M, Codec(SubSeq(buf, read_to + 1, Len(buf)), 0, TRUE))
        ELSE IF newlines # {}
        THEN LineOf(SubSeq(buf, 1, newline - 1),
                    Codec(SubSeq(buf, newline + 1, Len(buf)), 0, FALSE))
        ELSE IF Len(buf) > M
        THEN Decoded("err", <<>>, Codec(buf, st.next_index, TRUE))
        ELSE Decoded("none", <<>>, Codec(buf, read_to, FALSE))

\* Fault: a decode_eof that leaves the data after the last newline behind.
LinesDecodeEofDropsTail(M, st) == LinesDecode(M, st)

\* LinesCodec::decode_eof: the data left without a terminating newline is
\* the last line, unless it is empty or a lone carriage return.
LinesDecodeEof(M, st) ==
    LET d == LinesDecode(M, st)
    IN  IF d.res # "none" THEN d
        ELSE IF d.st.buffer = <<>> \/ d.st.buffer = <<"CR">> THEN d
        ELSE LineOf(d.st.buffer, Codec(<<>>, 0, d.st.is_discarding))

\* Fault: a sized-blob codec that frames what is buffered however long it is.
SizedDecodeUnbounded(M, st) ==
    IF st.buffer = <<>> THEN Decoded("none", <<>>, st)
    ELSE Decoded("frame", st.buffer, Codec(<<>>, st.next_index, st.is_discarding))

\* SizedBytesCodec::decode with a max_length of M: a frame of
\* min(remaining, max_length) bytes, none when nothing remains.
SizedDecode(M, st) ==
    LET n == Min(Len(st.buffer), M)
    IN  IF st.buffer = <<>> THEN Decoded("none", <<>>, st)
        ELSE Decoded("frame", SubSeq(st.buffer, 1, n),
                     Codec(SubSeq(st.buffer, n + 1, Len(st.buffer)),
                           st.next_index, st.is_discarding))

\* Decoder::decode_eof as the trait provides it: bytes left when decode
\* returns no frame are an error.
SizedDecodeEof(M, st) ==
    LET d == SizedDecode(M, st)
    IN  IF d.res = "none" /\ d.st.buffer # <<>> THEN Decoded("err", <<>>, d.st) ELSE d

\* What bytes_stream.next() gets from the codec when the FramedRead is
\* readable.
Polled ==
    LET st == Codec(buffer, next_index, is_discarding)
    IN  IF event_per_line
        THEN IF eof THEN LinesDecodeEof(buf_size, st) ELSE LinesDecode(buf_size, st)
        ELSE IF eof THEN SizedDecodeEof(buf_size, st) ELSE SizedDecode(buf_size, st)

SetCodec(st) ==
    /\ buffer' = st.buffer
    /\ next_index' = st.next_index
    /\ is_discarding' = st.is_discarding

ReaderFrame == UNCHANGED <<envVars, tcpVars, execVars, call, fdVars, ceVars>>

\* The FramedRead is not readable and the reader has data: a read returns
\* k bytes, as many as the reader has at hand.
FramedReadData(k) ==
    /\ task = "run"
    /\ ~is_readable
    /\ ~eof
    /\ nread + k <= Len(reader)
    /\ buffer' = buffer \o SubSeq(reader, nread + 1, nread + k)
    /\ nread' = nread + k
    /\ nreads' = nreads + 1
    /\ is_readable' = TRUE
    /\ UNCHANGED <<event_per_line, buf_size, stream_tag, reader, next_index,
                   is_discarding, eof, task, rx_open, received>>
    /\ ReaderFrame

\* The reader is at its end: the read returns no bytes.
FramedReadEof ==
    /\ task = "run"
    /\ ~is_readable
    /\ ~eof
    /\ nread = Len(reader)
    /\ eof' = TRUE
    /\ is_readable' = TRUE
    /\ UNCHANGED <<event_per_line, buf_size, stream_tag, reader, nread, nreads,
                   codecVars, task, rx_open, received>>
    /\ ReaderFrame

\* The codec returns a frame and the receiver is alive: the frame is sent
\* with the stream tag.
ReaderSendsFrame ==
    /\ task = "run"
    /\ is_readable
    /\ Polled.res = "frame"
    /\ rx_open
    /\ SetCodec(Polled.st)
    /\ received' = Append(received, <<Polled.frame, stream_tag>>)
    /\ UNCHANGED <<event_per_line, buf_size, stream_tag, reader, nread, nreads,
                   is_readable, eof, task, rx_open>>
    /\ ReaderFrame

\* The codec returns a frame and the receiver is gone: send fails and the
\* loop breaks.
ReaderSendFails ==
    /\ task = "run"
    /\ is_readable
    /\ Polled.res = "frame"
    /\ ~rx_open
    /\ SetCodec(Polled.st)
    /\ task' = "done"
    /\ UNCHANGED <<event_per_line, buf_size, stream_tag, reader, nread, nreads,
                   is_readable, eof, rx_open, received>>
    /\ ReaderFrame

\* The codec returns an error: it is logged and the loop goes on.
ReaderLogsError ==
    /\ task = "run"
    /\ is_readable
    /\ Polled.res = "err"
    /\ SetCodec(Polled.st)
    /\ UNCHANGED <<event_per_line, buf_size, stream_tag, reader, nread, nreads,
                   is_readable, eof, task, rx_open, received>>
    /\ ReaderFrame

\* The codec returns no frame: before the end of the reader the FramedRead
\* goes back to reading, at the end the stream is over and the task ends.
ReaderNoFrame ==
    /\ task = "run"
    /\ is_readable
    /\ Polled.res = "none"
    /\ SetCodec(Polled.st)
    /\ is_readable' = eof
    /\ task' = IF eof THEN "done" ELSE "run"
    /\ UNCHANGED <<event_per_line, buf_size, stream_tag, reader, nread, nreads,
                   eof, rx_open, received>>
    /\ ReaderFrame

\* The receiving half of the channel is dropped.
ReceiverDrops ==
    /\ task = "run"
    /\ rx_open
    /\ rx_open' = FALSE
    /\ UNCHANGED <<event_per_line, buf_size, stream_tag, reader, nread, nreads,
                   codecVars, is_readable, eof, task, received>>
    /\ ReaderFrame

ByteStrings == UNION {[1..n -> Bytes] : n \in 0..MaxBytes}

\* spawn_reader_thread(reader, event_per_line, buf_size, stream, sender)
\* has spawned the task.
ReaderInit ==
    /\ event_per_line \in BOOLEAN
    /\ buf_size \in 1..MaxBufSize
    /\ stream_tag \in Streams
    /\ reader \in ByteStrings
    /\ nread = 0
    /\ nreads = 0
    /\ buffer = <<>>
    /\ next_index = 0
    /\ is_discarding = FALSE
    /\ is_readable = FALSE
    /\ eof = FALSE
    /\ task = "run"
    /\ rx_open = TRUE
    /\ received = <<>>

\* ------------------------------------------------------------------------
\* create_event: the log event of one frame
\* ------------------------------------------------------------------------
\* Widths of u32 and of i64 in the model, scaled down.
U32Bits == 3
I64Bits == 6
\* Readings of the clock in the model.
MaxNow == 2

EXEC == "exec"

STREAM_KEY == "stream"

PID_KEY == "pid"

COMMAND_KEY == "command"

\* The keys of the log schema.
message_key == "message"

timestamp_key == "timestamp"

source_type_key == "source_type"

host_key == "host"

\* The kinds of value a log event holds.
BytesValue(b) == [kind |-> "bytes", bytes |-> b]

IntegerValue(n) == [kind |-> "integer", int |-> n]

TimestampValue(t) == [kind |-> "timestamp", at |-> t]

ArrayValue(a) == [kind |-> "array", items |-> a]

\* LogEvent::insert: the key is set to the value, a value it had is replaced.
Insert(log, key, value) ==
    [k \in DOMAIN log \cup {key} |-> IF k = key THEN value ELSE log[k]]

InsertIf(cond, log, key, value) == IF cond THEN Insert(log, key, value) ELSE log

\* A two's-complement integer of the given width that is v modulo 2^bits.
Signed(v, bits) ==
    LET m == v % (2^bits)
    IN  IF m >= 2^(bits - 1) THEN m - 2^bits ELSE m

\* Fault: a cast to a signed integer no wider than the pid.
PidAsI32(pid) == Signed(pid, U32Bits)

\* `pid as i64`.
PidAsI64(pid) == Signed(pid, I64Bits)

create_event(a) ==
    LET e0 == <<>>
        e1 == Insert(e0, message_key, BytesValue(a.line))
        e2 == Insert(e1, timestamp_key, TimestampValue(a.now))
        e3 == Insert(e2, source_type_key, BytesValue(EXEC))
        e4 == InsertIf(a.data_stream.some, e3, STREAM_KEY,
                       BytesValue(a.data_stream.val))
        e5 == InsertIf(a.pid.some, e4, PID_KEY, IntegerValue(PidAsI64(a.pid.val)))
        e6 == InsertIf(a.hostname.some, e5, host_key, BytesValue(a.hostname.val))
        e7 == Insert(e6, COMMAND_KEY, ArrayValue(a.command))
    IN  [emitted |-> <<[ev |-> "ExecEventReceived", byte_size |-> Len(a.line)]>>,
         log |-> e7]

Options(S) == {None} \cup {Some(v) : v \in S}

CreateEventArgs ==
    [hostname : Options({"Some.Machine"}),
     line : {<<>>, <<"a">>, <<"a", "LF">>},
     data_stream : Options(Streams),
     pid : Options(0..(2^U32Bits - 1)),
     command : {<<"sh">>, <<"sh", "-c">>},
     now : 1..MaxNow]

\* create_event is called and returns.
CreateEvent ==
    /\ call = "create_event"
    /\ ce_ret.emitted = <<>>
    /\ ce_ret' = create_event(ce_args)
    /\ UNCHANGED <<envVars, tcpVars, execVars, call, fdVars, readerVars, ce_args>>

\* ------------------------------------------------------------------------
\* The functions called on their own
\* ------------------------------------------------------------------------
FnInit ==
    /\ source = "none"
    /\ shutdown = FALSE
    /\ sinkClosed = FALSE
    /\ TcpOff
    /\ ExecOff
    /\ \/ /\ call = "parse_systemd_fd"
          /\ fd_str \in FdStrings
          /\ fd_ret = NoRet
          /\ ReaderOff
          /\ CeOff
       \/ /\ call = "spawn_reader_thread"
          /\ FdOff
          /\ ReaderInit
          /\ CeOff
       \/ /\ call = "create_event"
          /\ FdOff
          /\ ReaderOff
          /\ ce_args \in CreateEventArgs
          /\ ce_ret = NoEvent

FnNext ==
    \/ ParseSystemdFd
    \/ \E k \in 1..MaxBytes : FramedReadData(k)
    \/ FramedReadEof
    \/ ReaderSendsFrame
    \/ ReaderSendFails
    \/ ReaderLogsError
    \/ ReaderNoFrame
    \/ ReceiverDrops
    \/ CreateEvent

\* One call of one function on one input, whatever the reads return.
SpecFn == FnInit /\ [][FnNext]_vars

\* ------------------------------------------------------------------------
\* The program: one source or the other
\* ------------------------------------------------------------------------
Init == TcpInit \/ ExecInit \/ FnInit

Next == TcpNext \/ ExecNext \/ FnNext

Spec == Init /\ [][Next]_vars

\* ========================================================================
\* Properties
\* ========================================================================

\* The last element of a non-empty sequence.
Last(q) == q[Len(q)]

\* Handlers spawned and not yet completed.
Running == {c \in Conns : hpc[c] \notin {"none", "done"}}

\* ---- TCP source ---------------------------------------------------------

\* C1, as the specification states it: on a connection, an ack is written
\* only when every event lifted from the frame in hand has been accepted by
\* the sink, i.e. the event just accepted is the last one of its frame; and
\* the frame an ack answers never goes back.
C1_AckAfterWholeFrame ==
    [][\A c \in Conns :
         /\ acked'[c] # acked[c] => event_i[c] = events_n[c]
         /\ frame_no'[c] >= frame_no[c]]_vars

\* C2, as the specification states it: once the drain tripwire has resolved,
\* the only step a handler takes is to return; it reads no frame, sends no
\* event and writes no ack any more.
C2_ReturnByTripwire ==
    [][TripwireResolved =>
         \A c \in Conns :
            <<hpc[c], frame_no[c], sent[c], acked[c]>>' # <<hpc[c], frame_no[c], sent[c], acked[c]>>
               => hpc'[c] = "done" /\ sent'[c] = sent[c] /\ acked'[c] = acked[c]]_vars

\* C3: the connection gauge equals the number of handlers spawned and not yet
\* completed, whichever way each handler returned; it is never negative, and
\* zero when all spawned handlers have finished.
C3_GaugeCountsHandlers ==
    /\ connection_gauge = Cardinality(Running)
    /\ connection_gauge >= 0
    /\ accepted = Cardinality({c \in Conns : hpc[c] # "none"})
    /\ (Running = {} => connection_gauge = 0)

\* C3 witness: one handler has returned while another is still being served.
C3_OneReturnedOneServed ==
    /\ \E c \in Conns : hpc[c] = "done"
    /\ \E c \in Conns : hpc[c] = "send"
    /\ connection_gauge = 1

\* ---- EXEC source --------------------------------------------------------

\* C4: no child outlives the run_command future that spawned it: a child is
\* alive only while its runner is pending, hence none is alive once the
\* supervisor has returned.
C4_NoChildOutlivesRunner ==
    /\ run.proc = "alive" => rpc # "idle" /\ run.ret = "pending"
    /\ epc = "done" => run.proc # "alive"

\* C4 witness: a runner returned normally while its child was still running,
\* and the child was killed.
C4_ReturnedAndKilled == run.ret = "Ok" /\ run.proc = "killed" /\ rpc = "idle"

\* C5: in scheduled mode no run is in progress longer than the interval, and
\* a run that reaches the interval is abandoned: the future is dropped, the
\* child is not alive, ExecTimeout carries elapsed_seconds = interval, and
\* the supervisor waits for the next tick.
C5_TimeoutAbandonsRun ==
    [][mode = "scheduled" =>
         /\ epc = "run" => clk <= Interval
         /\ epc' = "run" => clk' <= Interval
         /\ (telemetry' # telemetry /\ telemetry' # <<>> /\ Last(telemetry').ev = "ExecTimeout")
               => /\ epc = "run" /\ clk = Interval
                  /\ Last(telemetry').elapsed_seconds = Interval
                  /\ run'.ret = "dropped" /\ run'.proc # "alive"
                  /\ rpc' = "idle" /\ epc' = "tick"
         /\ (epc = "run" /\ run'.ret = "dropped")
               => telemetry' # <<>> /\ Last(telemetry').ev = "ExecTimeout"]_vars

\* C5 witness: a run was abandoned at the deadline, its child was killed and
\* the supervisor waits for the next tick.
C5_AbandonedRun ==
    /\ mode = "scheduled"
    /\ telemetry # <<>> /\ Last(telemetry) = ExecTimeout(Interval)
    /\ run.ret = "dropped" /\ run.proc = "killed"
    /\ epc = "tick"

\* C6: in scheduled mode, once the shutdown signal has fired no run is
\* started, the loop's only step is to exit, and it returns Ok.
C6_NoTickAfterShutdown ==
    [][mode = "scheduled" =>
         /\ shutdown => nruns' = nruns
         /\ (shutdown /\ epc = "tick" /\ epc' # epc) => epc' = "done"
         /\ epc' = "done" => supResult' = "Ok"]_vars

\* C6 witness: the scheduled loop has exited after shutdown, having run.
C6_LoopExited ==
    mode = "scheduled" /\ shutdown /\ epc = "done" /\ supResult = "Ok" /\ nruns > 0

\* C7, as the specification states it: in streaming mode with respawn, once
\* the shutdown signal has fired the supervisor spawns no child.
C7_NoSpawnAfterShutdown ==
    [][(mode = "respawn" /\ shutdown /\ nruns' # nruns) => run'.proc = "none"]_vars

\* C8: after the shutdown signal fires the source terminates in every mode:
\* the readers are gone, the runner is gone and the supervisor has returned.
C8_TerminatesAfterShutdown ==
    shutdown ~> (epc = "done" /\ supResult = "Ok" /\ rpc = "idle" /\ ~detached)

\* C8 witness: the source has terminated after shutdown through the readers'
\* end-of-stream, with a child that never exited by itself.
C8_TerminatedWithLiveChild ==
    /\ shutdown /\ epc = "done" /\ ~detached
    /\ run.start = "ok" /\ run.ret = "Ok" /\ run.proc = "killed"

\* C9: within a run, the frames of each stream reach the sink in the order
\* their reader decoded them.
C9_PerStreamOrder ==
    \A s \in Streams :
       \A i, j \in 1..Len(delivered[s]) : i < j => delivered[s][i] < delivered[s][j]

\* C9 witness: the sink has accepted frames of both streams, two of them
\* from stdout.
C9_BothStreamsDelivered ==
    Len(delivered["stdout"]) >= 2 /\ Len(delivered["stderr"]) >= 1

\* C10: a run that spawned its child and attached its stdio returns Ok
\* whatever the exit status, and ExecFailed is emitted only for a run that
\* failed to spawn or to attach.
C10_AttachedRunReturnsOk ==
    /\ run.start = "ok" => run.ret # "Err" /\ result # "Err"
    /\ \A i \in 1..Len(telemetry) : telemetry[i].ev = "ExecFailed" => run.start # "ok"
    /\ run.ret = "Err" => run.start \in {"spawn_failed", "no_stderr", "no_stdout"}

\* C10 witness: a run whose child exited with a non-zero code returned Ok and
\* reported that code.
C10_NonZeroExitIsOk ==
    /\ run.start = "ok" /\ run.ret = "Ok" /\ run.code = "1"
    /\ telemetry = <<ExecCommandExecuted("1")>>

\* Frames of stream s waiting in the channel.
InChan(s) == Cardinality({i \in 1..Len(chan) : chan[i][1] = s})

\* Frames of stream s the runner has finished with in this run: decoded, and
\* neither in the reader's hand, nor in the channel, nor in the runner's hand.
Handled(s) ==
    dec[s] - InChan(s) - (IF rd[s] = "push" THEN 1 ELSE 0)
           - (IF cur # <<>> /\ cur[1] = s THEN 1 ELSE 0)

\* Sends of this run the sink answered with ClosedError.
ClosedErrors ==
    (Handled("stdout") - Len(delivered["stdout"]))
      + (Handled("stderr") - Len(delivered["stderr"]))

\* C11: a send the sink answers with Closed drops the event and takes the
\* runner back to receiving; the runner leaves the loop only when the
\* channel is empty and every sender is gone, then emits
\* ExecCommandExecuted with result Ok; and with a closed sink a reader
\* waiting on a full channel always gets on.
C11_ClosedSinkKeepsDraining ==
    /\ [][(rpc = "send" /\ sinkClosed /\ rpc' \notin {"send", "idle"})
             => rpc' = "recv" /\ delivered' = delivered /\ telemetry' = telemetry]_vars
    /\ [][(rpc # "flush" /\ rpc' = "flush")
             => /\ chan = <<>> /\ ActiveReaders = {}
                /\ result' = "Ok"
                /\ Last(telemetry').ev = "ExecCommandExecuted"]_vars
    /\ \A s \in Streams : []<>~(sinkClosed /\ rd[s] = "push")

\* C11 witness: with the sink closed, a run whose three stdout frames filled
\* the channel was drained to the end and is flushing with result Ok.
C11_DrainedAfterClosed ==
    /\ sinkClosed /\ rpc = "flush" /\ result = "Ok"
    /\ dec["stdout"] >= 3 /\ Len(delivered["stdout"]) < dec["stdout"]

\* C12, as the specification states it: once a send of this run was answered
\* with ClosedError, the runner calls send no more in this run.
C12_NoSendAfterClosed == ClosedErrors > 0 => rpc # "send"

\* C13, as the specification states it: the step in which an ack write fails
\* ends the handler, which reads no frame and sends no event any more.
C13_AckFailureEndsHandler ==
    [][\A c \in Conns :
         (hpc[c] = "ack" /\ hpc'[c] # "ack" /\ acked'[c] = acked[c])
            => hpc'[c] = "done"]_vars

\* C14, as the specification states it: the step in which a downstream send
\* fails ends the handler, which sends no event and writes no ack any more.
C14_SendFailureEndsHandler ==
    [][\A c \in Conns :
         (hpc[c] = "send" /\ hpc'[c] # "send" /\ sent'[c] = sent[c])
            => hpc'[c] = "done"]_vars

\* C15, as the specification states it: when no listener can be produced the
\* source finishes without an error result, having accepted no connection,
\* spawned no handler and left the gauge alone.
C15_NoListenerExitsCleanly ==
    listener = "failed"
       => /\ tcpResult = "Ok"
          /\ accepted = 0
          /\ connection_gauge = 0
          /\ \A c \in Conns : hpc[c] = "none"

\* A decimal numeral: at least one digit and nothing else.
IsNumeral(t) == t # <<>> /\ \A i \in 1..Len(t) : t[i] \in Digits

\* The integer a decimal numeral denotes, whatever its size.
RECURSIVE NumVal(_)
NumVal(t) ==
    IF t = <<>> THEN 0
    ELSE NumVal(SubSeq(t, 1, Len(t) - 1)) * 10 + DigitVal(t[Len(t)])

\* A numeral, or a numeral after a "+" sign.
IsNumber(t) == IsNumeral(t) \/ (t # <<>> /\ Head(t) = "+" /\ IsNumeral(Tail(t)))

NumberVal(t) == IF Head(t) = "+" THEN NumVal(Tail(t)) ELSE NumVal(t)

\* What follows "systemd#" in the input.
FdSuffix == SubSeq(fd_str, Len(SystemdHash) + 1, Len(fd_str))

\* C16 as stated: "systemd" gives offset 0 and "systemd#N" gives N-1 for
\* every integer N >= 1; "systemd#0", "systemd#" before a non-number and
\* every other string give an error; the offset never underflows.
C16_SystemdFdEveryIndex ==
    fd_ret # NoRet =>
        /\ fd_str = Systemd => fd_ret = Ok(0)
        /\ StartsWith(fd_str, SystemdHash) =>
               /\ (IsNumeral(FdSuffix) /\ NumVal(FdSuffix) >= 1)
                      => fd_ret = Ok(NumVal(FdSuffix) - 1)
               /\ (IsNumeral(FdSuffix) /\ NumVal(FdSuffix) = 0) => fd_ret = Err
               /\ ~IsNumber(FdSuffix) => fd_ret = Err
        /\ (fd_str # Systemd /\ ~StartsWith(fd_str, SystemdHash)) => fd_ret = Err
        /\ fd_ret.tag = "Ok" => fd_ret.val \in 0..UsizeMax

\* C16, amended: "systemd" gives offset 0; "systemd#N", with N written in
\* decimal with or without a "+" sign, gives N-1 for every N from 1 to
\* usize::MAX and an error for N = 0 and for N beyond usize::MAX;
\* "systemd#" before anything else, and every other string, give an error;
\* the offset never underflows.
C16_SystemdFdIndexInRange ==
    fd_ret # NoRet =>
        /\ fd_str = Systemd => fd_ret = Ok(0)
        /\ StartsWith(fd_str, SystemdHash) =>
               /\ (IsNumber(FdSuffix) /\ NumberVal(FdSuffix) \in 1..UsizeMax)
                      => fd_ret = Ok(NumberVal(FdSuffix) - 1)
               /\ (IsNumber(FdSuffix) /\ NumberVal(FdSuffix) = 0) => fd_ret = Err
               /\ (IsNumber(FdSuffix) /\ NumberVal(FdSuffix) > UsizeMax)
                      => fd_ret = Err
               /\ ~IsNumber(FdSuffix) => fd_ret = Err
        /\ (fd_str # Systemd /\ ~StartsWith(fd_str, SystemdHash)) => fd_ret = Err
        /\ fd_ret.tag = "Ok" => fd_ret.val \in 0..(UsizeMax - 1)

\* C16 witness: "systemd#" before a numeral of several digits was parsed to
\* the index before it.
C16_IndexParsed ==
    /\ StartsWith(fd_str, SystemdHash)
    /\ IsNumeral(FdSuffix)
    /\ Len(FdSuffix) >= 2
    /\ NumVal(FdSuffix) > 9
    /\ fd_ret = Ok(NumVal(FdSuffix) - 1)

\* The frames of a sequence of <<frame, stream>> pairs, joined in order.
RECURSIVE Concat(_)
Concat(pairs) == IF pairs = <<>> THEN <<>> ELSE Head(pairs)[1] \o Concat(Tail(pairs))

\* The frames sent so far that are shorter than max_length and not the last.
ShortInnerFrames == {i \in 1..(Len(received) - 1) : Len(received[i][1]) < buf_size}

\* The task ran in blob mode to the end of the reader with the receiver alive.
BlobDone == call = "spawn_reader_thread" /\ ~event_per_line /\ task = "done" /\ rx_open

LineFeeds(B) == {i \in 1..Len(B) : B[i] = "LF"}

FirstLineFeed(B) == CHOOSE i \in LineFeeds(B) : \A j \in LineFeeds(B) : i <= j

\* The newline-separated segments of a byte string, in order; what follows
\* the last line feed is a segment when it is not empty.
RECURSIVE Segments(_)
Segments(B) ==
    IF B = <<>> THEN <<>>
    ELSE IF LineFeeds(B) = {} THEN <<B>>
    ELSE <<SubSeq(B, 1, FirstLineFeed(B) - 1)>>
             \o Segments(SubSeq(B, FirstLineFeed(B) + 1, Len(B)))

\* The frames of a sequence of <<frame, stream>> pairs.
Frames(pairs) == [i \in 1..Len(pairs) |-> pairs[i][1]]

\* The segments of at most M bytes, as they are.
RECURSIVE Within(_, _)
Within(segs, M) ==
    IF segs = <<>> THEN <<>>
    ELSE (IF Len(Head(segs)) <= M THEN <<Head(segs)>> ELSE <<>>)
             \o Within(Tail(segs), M)

\* The lines the amended claim expects of a byte string: the segments of at
\* most M bytes that are UTF-8, each without its trailing carriage return,
\* and not a lone carriage return after the last line feed.
RECURSIVE Lines(_, _)
Lines(B, M) ==
    IF B = <<>> THEN <<>>
    ELSE IF LineFeeds(B) = {}
    THEN IF Len(B) <= M /\ Utf8Ok(B) /\ B # <<"CR">>
         THEN <<WithoutCarriageReturn(B)>>
         ELSE <<>>
    ELSE LET seg == SubSeq(B, 1, FirstLineFeed(B) - 1)
         IN  (IF Len(seg) <= M /\ Utf8Ok(seg)
              THEN <<WithoutCarriageReturn(seg)>>
              ELSE <<>>)
                 \o Lines(SubSeq(B, FirstLineFeed(B) + 1, Len(B)), M)

\* The task ran in line mode to the end of the reader with the receiver alive.
LinesDone == call = "spawn_reader_thread" /\ event_per_line /\ task = "done" /\ rx_open

\* C18 as stated: in line mode the frames enqueued are exactly the
\* newline-separated segments of the input that are at most max_length
\* long, in order, the unterminated last one included; a longer line is
\* left out whole and the lines after it are still enqueued.
C18_LinesExactlySegments ==
    LinesDone => Frames(received) = Within(Segments(reader), buf_size)

\* C18, amended: in line mode the reader is read to its end and the frames
\* enqueued are, in order, the newline-separated segments of the input that
\* are at most max_length long (counted with a trailing carriage return) and
\* are UTF-8, each without its trailing carriage return, the unterminated
\* last one included unless it is a lone carriage return; a longer line, or
\* one that is not UTF-8, is left out whole and the lines after it are
\* still enqueued.
C18_LinesStrippedSegments ==
    LinesDone =>
        /\ nread = Len(reader)
        /\ Frames(received) = Lines(reader, buf_size)
        /\ \A i \in 1..Len(received) : received[i][2] = stream_tag

\* C18 witness: a line-mode task read, in several reads, a line longer than
\* max_length followed by a line feed and an unterminated segment, and
\* enqueued the segment only.
C18_OverlongLineSkipped ==
    /\ LinesDone
    /\ nreads >= 2
    /\ Len(Segments(reader)) = 2
    /\ Len(Segments(reader)[1]) > buf_size
    /\ LineFeeds(reader) = {Len(reader) - 1}
    /\ Frames(received) = <<Segments(reader)[2]>>

\* create_event has returned.
Created == ce_ret.emitted # <<>>

\* The fields an event has whatever the optional arguments are.
AlwaysKeys == {"message", "timestamp", "source_type", "command"}

InRecvLoop == rpc \in {"recv", "send"}

\* C20 as stated: once the stdout reader's sender is dropped, the runner's
\* receive loop ends, also when the stderr reader is still reading.
C20_LoopEndsAfterStdoutDropped ==
    (InRecvLoop /\ rd["stdout"] = "done") ~> ~InRecvLoop

\* C20, amended: the receive loop goes on to the flush only when the queue
\* is empty and the sender of every reader task, stdout and stderr, has
\* been dropped, and once they all have been dropped it ends; while the
\* stderr reader is still reading the loop stays.
C20_LoopEndsAfterAllDropped ==
    /\ [][(InRecvLoop /\ ~InRecvLoop' /\ rpc' # "idle")
              => /\ rpc' = "flush"
                 /\ chan = <<>>
                 /\ \A s \in Streams : rd[s] \in {"off", "done"}]_vars
    /\ (InRecvLoop /\ \A s \in Streams : rd[s] \in {"off", "done"}) ~> ~InRecvLoop

\* C20 witness: the stdout reader is over after a frame of its own, the
\* queue is drained, and the runner still waits in its loop for the stderr
\* reader, one of whose frames it has delivered.
C20_WaitingForStderr ==
    /\ include_stderr
    /\ rd["stdout"] = "done"
    /\ dec["stdout"] >= 1
    /\ rd["stderr"] = "read"
    /\ Len(delivered["stderr"]) >= 1
    /\ rpc = "recv"
    /\ chan = <<>>

\* How many internal events of a kind the latest run has emitted.
Emitted(kind) == Cardinality({i \in 1..Len(telemetry) : telemetry[i].ev = kind})

\* The latest run spawned its child and attached its stdio.
Attached == run.start = "ok"

\* The latest run failed to spawn its child or to take one of its pipes.
StartFailed == run.start \in {"spawn_failed", "no_stderr", "no_stdout"}

\* C21: a run that spawned its child and attached its stdio emits
\* ExecCommandExecuted at most once, and exactly once when it returns
\* without being cancelled; it emits it only when the channel is closed and
\* empty and no frame of the run is in a reader's or the runner's hands, and
\* the flush comes next; a run whose spawn or attach failed emits none and
\* sends no event.
C21_ExecutedOncePerAttachedRun ==
    /\ [](Attached =>
            /\ Emitted("ExecCommandExecuted") <= 1
            /\ run.ret = "Ok" => Emitted("ExecCommandExecuted") = 1
            /\ run.ret = "pending"
                   => Emitted("ExecCommandExecuted") = (IF rpc = "flush" THEN 1 ELSE 0))
    /\ [](StartFailed =>
            /\ Emitted("ExecCommandExecuted") = 0
            /\ rpc = "idle"
            /\ \A s \in Streams : delivered[s] = <<>>)
    /\ [][Emitted("ExecCommandExecuted")' > Emitted("ExecCommandExecuted")
              => /\ Attached
                 /\ rpc = "recv" /\ rpc' = "flush"
                 /\ chan = <<>> /\ cur = <<>>
                 /\ \A s \in Streams : rd[s] \in {"off", "done"}
                 /\ ~sinkClosed => \A s \in Streams : Len(delivered[s]) = dec[s]]_vars

\* C21 witness: an attached run whose frames of both streams were all
\* delivered has emitted ExecCommandExecuted once and is flushing.
C21_ExecutedAfterBothStreams ==
    /\ Attached
    /\ rpc = "flush"
    /\ Emitted("ExecCommandExecuted") = 1
    /\ Len(delivered["stdout"]) >= 1
    /\ Len(delivered["stderr"]) >= 1
    /\ \A s \in Streams : Len(delivered[s]) = dec[s]

\* The latest run failed at command.spawn().
SpawnFailed == run.start = "spawn_failed"

\* C22: a run whose spawn failed returned an error with no child, no reader
\* task and no event sent, and ExecFailed is the one internal event of the
\* attempt; the supervisor has not returned unless it runs without respawn
\* or shutdown has fired: scheduled, it waits for the tick and starts the
\* next run at a tick only; with respawn, it sleeps and starts the next run
\* after the sleep only; without respawn it has returned Ok.
C22_SpawnFailureReported ==
    /\ [](SpawnFailed =>
            /\ run.ret = "Err" /\ run.proc = "none"
            /\ rpc = "idle"
            /\ \A s \in Streams : rd[s] = "off" /\ dec[s] = 0 /\ delivered[s] = <<>>
            /\ Emitted("ExecFailed") = 1 /\ Len(telemetry) = 1
            /\ mode = "scheduled" => epc = "tick" \/ (epc = "done" /\ shutdown)
            /\ mode = "respawn" => epc = "cooldown" \/ (epc = "done" /\ shutdown)
            /\ mode = "once" => epc = "done" /\ supResult = "Ok")
    /\ [][(SpawnFailed /\ nruns' > nruns)
              => /\ mode # "once"
                 /\ ~shutdown \/ mode = "respawn"
                 /\ mode = "scheduled" => clk >= Interval
                 /\ mode = "respawn" => sleepDone]_vars

\* C22 witness: the first spawn of a respawning supervisor failed, ExecFailed
\* was emitted, and the respawn sleep has run out with no shutdown.
C22_FailedSpawnBeforeRetry ==
    /\ SpawnFailed
    /\ nruns = 1
    /\ mode = "respawn"
    /\ epc = "cooldown"
    /\ sleepDone
    /\ ~shutdown
    /\ Emitted("ExecFailed") = 1

\* The frames of one stream queued in the channel, in order.
Queued(s) ==
    LET q == SelectSeq(chan, LAMBDA e : e[1] = s)
    IN  [i \in 1..Len(q) |-> q[i][2]]

\* The frames of one stream the run still has: those the sink accepted, the
\* one the runner is sending, those queued, and the one a reader waits to
\* send.
Kept(s) ==
    delivered[s]
        \o (IF cur # <<>> /\ cur[1] = s THEN <<cur[2]>> ELSE <<>>)
        \o Queued(s)
        \o (IF rd[s] = "push" THEN <<dec[s]>> ELSE <<>>)

\* C23: the channel never holds more frames than its capacity; a reader that
\* decodes a frame while the channel is full waits with the frame and the
\* channel is left as it is; while the runner is alive every frame decoded
\* is, once and in order, with the sink, with the runner, in the channel or
\* with the waiting reader, and with a closed sink none is there twice or
\* out of order.
C23_BoundedChannelLosesNothing ==
    /\ [](Len(chan) <= ChanCap)
    /\ [](\A s \in Streams :
            /\ ~sinkClosed => Kept(s) = [i \in 1..dec[s] |-> i]
            /\ \A i \in 1..Len(Kept(s)) :
                   /\ Kept(s)[i] \in 1..dec[s]
                   /\ i > 1 => Kept(s)[i - 1] < Kept(s)[i])
    /\ [][\A s \in Streams :
              dec'[s] > dec[s]
                  => \/ /\ Len(chan) < ChanCap
                        /\ chan' = Append(chan, <<s, dec'[s]>>)
                        /\ rd'[s] = "read"
                     \/ /\ Len(chan) = ChanCap
                        /\ chan' = chan
                        /\ rd'[s] = "push"]_vars

\* C23 witness: the channel is full, the stdout reader waits in send with
\* its next frame, and the runner has not yet received.
C23_ReaderWaitsOnFullChannel ==
    /\ Len(chan) = ChanCap
    /\ rd["stdout"] = "push"
    /\ rpc = "recv"
    /\ ~sinkClosed

\* C24: a handler that reads a decoder error either goes on in its loop
\* with the connection as it was (a continuable error) or returns (an error
\* that is not); the error itself sends and acks nothing, and a handler
\* that has returned decodes, sends and acks nothing more.
C24_DecoderErrorContinuesOrEnds ==
    /\ [][(tcp_input' > tcp_input /\ frame_no' = frame_no)
              => \E c \in Conns :
                    /\ hpc[c] = "loop"
                    /\ sent' = sent /\ acked' = acked
                    /\ \/ hpc' = hpc /\ skipped_at'[c] = frame_no[c]
                       \/ hpc' = [hpc EXCEPT ![c] = "done"] /\ skipped_at'[c] = -1]_vars
    /\ [][\A c \in Conns :
              hpc[c] = "done"
                  => /\ hpc'[c] = "done"
                     /\ frame_no'[c] = frame_no[c]
                     /\ sent'[c] = sent[c]
                     /\ acked'[c] = acked[c]]_vars

\* C24 witness: a handler went on after a decoder error that came before
\* its first frame, then decoded a frame whose event was delivered and
\* acked.
C24_FrameAfterContinuableError ==
    \E c \in Conns :
        /\ skipped_at[c] = 0
        /\ frame_no[c] = 1
        /\ sent[c] = 1
        /\ acked[c] = 1

\* C25: a connection whose handshake fails, or whose handler sees the shutdown
\* signal before the handshake completes, is never served: the handler has
\* returned with no frame read, no event sent, no ack written and the write
\* half untouched, and it stays returned; TcpSocketConnectionError has been
\* emitted once for a failed handshake and never for any other connection; a
\* handler leaves the handshake without a result only when shutdown has fired.
Unserved(c) ==
    /\ hpc[c] = "done"
    /\ frame_no[c] = 0
    /\ sent[c] = 0
    /\ acked[c] = 0
    /\ ~write_shut[c]

C26_ShutdownOnlyShutsWriteHalf ==
    /\ [](\A c \in Conns : write_shut[c] => shutdown /\ handshake[c] = "Ok")
    /\ [][\A c \in Conns :
              (write_shut'[c] /\ ~write_shut[c])
                  => /\ shutdown
                     /\ hpc[c] = "loop" /\ hpc' = hpc
                     /\ connection_gauge' = connection_gauge
                     /\ frame_no' = frame_no /\ sent' = sent /\ acked' = acked
                     /\ tcp_input' = tcp_input]_vars
    /\ [][\A c \in Conns :
              (write_shut[c] /\ frame_no'[c] > frame_no[c])
                  => /\ hpc[c] = "loop"
                     /\ frame_no'[c] = frame_no[c] + 1
                     /\ hpc'[c] = IF events_n'[c] > 0 THEN "send" ELSE "loop"]_vars
    /\ [][\A c \in Conns :
              (write_shut[c] /\ hpc[c] = "send" /\ hpc'[c] # "send" /\ ~sinkClosed)
                  => hpc'[c] = "ack" /\ sent'[c] = sent[c] + 1]_vars

\* C26 witness: the write half was shut while the handler sat in its select
\* (the only place the shutdown arm runs), and the handler has since decoded
\* the connection's first frame and handed its event to the open sink, the
\* tripwire not having fired.
C26_FrameServedAfterShutdown ==
    \E c \in Conns :
        /\ write_shut[c]
        /\ hpc[c] = "ack"
        /\ frame_no[c] = 1
        /\ sent[c] = 1
        /\ ~drainElapsed
        /\ ~sinkClosed


\* C27: once the shutdown signal has fired the supervisor accepts nothing and
\* spawns nothing: the accepted count stays, no connection gets a handler, the
\* gauge is never opened again; this although a connection is pending on the
\* listener whenever fewer than MaxConns have been accepted; and a supervisor
\* that is listening when shutdown fires ends its accept loop and returns Ok.
C27_NoAcceptAfterShutdown ==
    /\ [][shutdown
              => /\ accepted' = accepted
                 /\ connection_gauge' <= connection_gauge
                 /\ \A c \in Conns : hpc[c] = "none" => hpc'[c] = "none"]_vars
    /\ [](listener = "closed" => shutdown /\ tcpResult = "Ok")
    /\ (shutdown /\ listener = "listening") ~> (listener = "closed")

\* C27 witness: the accept loop has ended after shutdown with one connection
\* accepted before it and a further one never accepted.
C27_LoopEndedWithPendingConnection ==
    /\ shutdown
    /\ listener = "closed"
    /\ accepted = 1
    /\ accepted < MaxConns
    /\ hpc[accepted + 1] = "none"


\* C28: a failed accept is skipped: the step on which the accept stream
\* yields a result and no connection is accepted gives no connection a
\* handler, leaves the gauge as it is (so no ConnectionOpen goes out), leaves
\* every handler alone, and leaves the supervisor listening with no result;
\* the connection numbers of failed accepts never get a handler later.
C28_FailedAcceptSkipped ==
    /\ [][(arrived' > arrived /\ accepted' = accepted)
              => /\ arrived' = arrived + 1
                 /\ hpc' = hpc
                 /\ connection_gauge' = connection_gauge
                 /\ UNCHANGED connVars
                 /\ listener = "listening" /\ listener' = "listening"
                 /\ tcpResult' = tcpResult
                 /\ ~shutdown]_vars
    /\ [](\A c \in Conns : (c <= arrived /\ hpc[c] = "none") => handshake[c] = "none")
    /\ [][\A c \in Conns : (c <= arrived /\ hpc[c] = "none") => hpc'[c] = "none"]_vars
    /\ [](accepted = Cardinality({c \in Conns : hpc[c] # "none"}) /\ accepted <= arrived)

\* C28 witness: the first accept failed and got no handler; the supervisor
\* went on and accepted the next connection, the only one the gauge counts.
C28_AcceptedAfterFailedAccept ==
    /\ MaxConns >= 2
    /\ arrived = 2
    /\ hpc[1] = "none"
    /\ hpc[2] = "handshake"
    /\ accepted = 1
    /\ connection_gauge = 1
    /\ listener = "listening"


\* C29: an exec source has at most one live child: the child that is alive
\* is the one of the run in progress, and a run is started, by a tick of the
\* scheduled loop or by the first or a later turn of the streaming loop, only
\* when no run is in progress and the child of the run before is not alive
\* (it has exited or was killed when its run_command future was dropped).
C29_AtMostOneLiveChild ==
    /\ [](ChildAlive => epc = "run" /\ rpc \in {"recv", "send", "flush"})
    /\ [][nruns' > nruns
              => /\ nruns' = nruns + 1
                 /\ ~ChildAlive
                 /\ rpc = "idle"
                 /\ epc = CASE mode = "scheduled" -> "tick"
                             [] mode = "respawn" -> IF nruns = 0 THEN "start" ELSE "cooldown"
                             [] OTHER -> "start"]_vars

\* C29 witness: the scheduled loop abandoned a run whose readers were still
\* at work, its child was killed, and the next tick's child is the one alive.
C29_SecondChildAfterKilledFirst ==
    /\ mode = "scheduled"
    /\ nruns = 2
    /\ ChildAlive
    /\ detached
    /\ epc = "run"


\* The outcome events the latest run has emitted so far.
Outcomes ==
    Emitted("ExecCommandExecuted") + Emitted("ExecFailed") + Emitted("ExecTimeout")

\* C30, as the specification states it: in scheduled mode a tick's run emits
\* at most one outcome event among ExecCommandExecuted, ExecFailed and
\* ExecTimeout, exactly one once the run is over, and never both
\* ExecCommandExecuted and ExecTimeout.
C30_OneOutcomePerTick ==
    mode = "scheduled"
       => /\ Outcomes <= 1
          /\ (nruns > 0 /\ epc \in {"tick", "done"}) => Outcomes = 1
          /\ ~(Emitted("ExecCommandExecuted") > 0 /\ Emitted("ExecTimeout") > 0)


\* C31: on every connection the acks written never outnumber the events the
\* sink has accepted, and while an ack write is pending they are fewer; the
\* handler comes to an ack write only by the step in which the sink accepts
\* an event; an ack is written only from there, one at a time; and the step
\* in which a send fails leads to no ack write and writes none.
C31_AcksNeverExceedAcceptedEvents ==
    /\ [](\A c \in Conns :
            /\ acked[c] <= sent[c]
            /\ hpc[c] = "ack" => acked[c] < sent[c])
    /\ [][\A c \in Conns :
              /\ (hpc'[c] = "ack" /\ hpc[c] # "ack")
                    => hpc[c] = "send" /\ ~sinkClosed /\ sent'[c] = sent[c] + 1
              /\ acked'[c] # acked[c]
                    => hpc[c] = "ack" /\ acked'[c] = acked[c] + 1 /\ sent'[c] = sent[c]
              /\ (hpc[c] = "send" /\ hpc'[c] # "send" /\ sent'[c] = sent[c])
                    => hpc'[c] # "ack" /\ acked'[c] = acked[c]]_vars

\* C31 witness: the ack of a connection's first event failed, and the sink
\* has just accepted the event of its second frame: two events accepted, no
\* ack written, an ack write pending.
C31_AckPendingBehindAcceptedEvents ==
    \E c \in Conns :
        /\ hpc[c] = "ack"
        /\ frame_no[c] = 2
        /\ sent[c] = 2
        /\ acked[c] = 0

====
